---- MODULE Spec2Model ----
(***************************************************************************)
(* A model of src/src/executor.py: the command executors (echo, pwd, cat,  *)
(* wc, external process), the dispatcher processCmd and the pipeline       *)
(* runner runCommand.                                                      *)
(*                                                                         *)
(* Text is a sequence of one-character strings.  Two specifications:       *)
(*   Spec     the pipeline runner over a pipeline of commands;             *)
(*   SpecExt  ExternalExecutor.execute against a child process, with the   *)
(*            three OS pipes of bounded capacity.                          *)
(***************************************************************************)
EXTENDS Integers, Sequences, FiniteSets, TLC

VARIABLES
    cmds,       \* runCommand's argument: the list of CmdIR (name, args)
    cmdsExec,   \* runCommand's cmdsExec: the executor class of each command
    pc,         \* where runCommand is
    idx,        \* the position of the for loop in cmdsExec (1-based)
    result,     \* runCommand's result: the text of the current stream
    istream,    \* the text of the stream passed to the running execute
    ostream,    \* the text of the stream the running execute will return
    exc,        \* the exception in flight out of the running execute
    err,        \* the exception runCommand raised to its caller
    returned,   \* the text of the stream runCommand returned
    trace,      \* history: what the stages did, in order
    xpc,        \* ExternalExecutor.execute: the parent's position
    xinput,     \* bytes of encodedInput not yet handed to the OS
    xbuf,       \* bytes held in the BufferedWriter of the child's stdin
    inPipe,     \* bytes in the child's stdin pipe
    inClosed,   \* the parent closed its end of the stdin pipe
    outPipe,    \* bytes in the child's stdout pipe
    errPipe,    \* bytes in the child's stderr pipe
    xgot,       \* bytes of stdout communicate() has collected
    cpc,        \* the child's position
    cout,       \* bytes the child has still to write to stdout
    cerr        \* bytes the child has still to write to stderr

pipeVars == <<cmds, cmdsExec, pc, idx, result, istream, ostream, exc, err,
              returned, trace>>
extVars == <<xpc, xinput, xbuf, inPipe, inClosed, outPipe, errPipe, xgot,
             cpc, cout, cerr>>
vars == <<pipeVars, extVars>>

(***************************************************************************)
(* Bounds of the model.                                                    *)
(***************************************************************************)
MaxStages == 2      \* longest pipeline
MaxText == 2        \* longest standard-input content
MaxIn == 3          \* SpecExt: longest incoming stream, in bytes
MaxOut == 2         \* SpecExt: most bytes the child writes to stdout or stderr
PipeCap == 1        \* SpecExt: capacity of an OS pipe, in bytes
BufCap == 1         \* SpecExt: capacity of the BufferedWriter, in bytes

(***************************************************************************)
(* Text: the str methods the code uses.                                    *)
(***************************************************************************)
NL == "\n"
SP == " "
Empty == <<>>

\* str.split() and str.rstrip() without argument: what counts as whitespace
IsSpace(c) == c \in {" ", "\n", "\t", "\r"}

RECURSIVE SplitFrom(_, _, _, _)
SplitFrom(s, i, cur, acc) ==
    IF i > Len(s)
    THEN IF cur = Empty THEN acc ELSE Append(acc, cur)
    ELSE IF IsSpace(s[i])
         THEN SplitFrom(s, i + 1, Empty, IF cur = Empty THEN acc ELSE Append(acc, cur))
         ELSE SplitFrom(s, i + 1, Append(cur, s[i]), acc)

\* s.split(): the maximal runs of non-whitespace
StrSplit(s) == SplitFrom(s, 1, Empty, <<>>)

RECURSIVE SplitOnFrom(_, _, _, _, _)
SplitOnFrom(s, sep, i, cur, acc) ==
    IF i > Len(s)
    THEN Append(acc, cur)
    ELSE IF s[i] = sep
         THEN SplitOnFrom(s, sep, i + 1, Empty, Append(acc, cur))
         ELSE SplitOnFrom(s, sep, i + 1, Append(cur, s[i]), acc)

\* s.split(sep): the fragments between separators, empty ones kept
StrSplitOn(s, sep) == SplitOnFrom(s, sep, 1, Empty, <<>>)

RECURSIVE StrRStrip(_)
\* s.rstrip(): s without its trailing whitespace
StrRStrip(s) ==
    IF s = Empty THEN s
    ELSE IF IsSpace(s[Len(s)]) THEN StrRStrip(SubSeq(s, 1, Len(s) - 1))
    ELSE s

RECURSIVE LinesFrom(_, _, _, _)
LinesFrom(s, i, cur, acc) ==
    IF i > Len(s)
    THEN IF cur = Empty THEN acc ELSE Append(acc, cur)
    ELSE IF s[i] = NL
         THEN LinesFrom(s, i + 1, Empty, Append(acc, Append(cur, NL)))
         ELSE LinesFrom(s, i + 1, Append(cur, s[i]), acc)

\* iterating a text file, f.readlines(): the lines, each with its newline
ReadLines(s) == LinesFrom(s, 1, Empty, <<>>)

RECURSIVE Concat(_)
Concat(ss) == IF ss = <<>> THEN Empty ELSE Head(ss) \o Concat(Tail(ss))

Digit(d) == <<"0", "1", "2", "3", "4", "5", "6", "7", "8", "9">>[d + 1]

RECURSIVE ToDec(_)
\* f'{n}': the decimal digits of a natural number
ToDec(n) == IF n < 10 THEN <<Digit(n)>> ELSE Append(ToDec(n \div 10), Digit(n % 10))

RECURSIVE SumLen(_)
SumLen(ss) == IF ss = <<>> THEN 0 ELSE Len(Head(ss)) + SumLen(Tail(ss))

RECURSIVE SumWords(_)
SumWords(ss) == IF ss = <<>> THEN 0 ELSE Len(StrSplit(Head(ss))) + SumWords(Tail(ss))

RECURSIVE TextsUpTo(_)
\* every text over the characters a, space, newline of length at most n
TextsUpTo(n) ==
    IF n = 0 THEN {Empty}
    ELSE LET shorter == TextsUpTo(n - 1)
         IN  shorter \cup {Append(t, c) : t \in shorter, c \in {"a", SP, NL}}

(***************************************************************************)
(* The environment: the commands a pipeline is made of, the files, the     *)
(* working directory, the programs on the PATH, standard input.            *)
(***************************************************************************)
CmdIR(name, args) == [name |-> name, args |-> args]

FileF == <<"f">>
ContentF == <<"a", SP, "b", NL, "c", "c", NL>>

\* what open(filename, 'r') finds
FileStatus(filename) ==
    CASE filename = FileF -> "ok"
      [] filename = <<"d">> -> "dir"
      [] filename = <<"u">> -> "noperm"
      [] OTHER -> "missing"

FileContent(filename) == IF filename = FileF THEN ContentF ELSE Empty

\* os.getcwd()
Cwd == <<"/", "w">>

\* what subprocess.Popen finds for a program name
SpawnStatus(name) == IF name = "prog" THEN "ok" ELSE "missing"

\* what a spawned child may print to its stdout, given its stdin
ChildOutputs(input) == {Empty, input, <<"o", NL>>}

\* what standard input may hold when it is read to its end
Texts == TextsUpTo(MaxText)

Cmds ==
    {CmdIR("echo", a) : a \in {Empty, <<"h", "i">>, <<"a", NL, "b">>, <<"a", NL>>}}
    \cup {CmdIR("pwd", Empty)}
    \cup {CmdIR("cat", a) : a \in {Empty, <<SP>>, FileF, <<SP, "f">>, <<"f", SP>>,
                                    <<"f", SP, "g">>, <<"d">>, <<"u">>, <<"x">>}}
    \cup {CmdIR("wc", a) : a \in {Empty, FileF, <<SP, "f">>, <<"f", SP, "g">>,
                                   <<"d">>, <<"x">>}}
    \cup {CmdIR("prog", Empty), CmdIR("nosuch", Empty)}

Pipelines == UNION {[1..n -> Cmds] : n \in 0..MaxStages}

(***************************************************************************)
(* Exceptions and the outcome of a call.                                   *)
(***************************************************************************)
\* an exception: its class, and what its message names
Err(kind, cmd, file, count) == [kind |-> kind, cmd |-> cmd, file |-> file, count |-> count]
NoErr == Err("none", "", Empty, 0)

Ok(out) == [ok |-> TRUE, out |-> out, err |-> NoErr]
Fail(e) == [ok |-> FALSE, out |-> Empty, err |-> e]

\* with open(filename, 'r') as f: f.read()
OsOpen(filename) ==
    CASE FileStatus(filename) = "ok" -> Ok(FileContent(filename))
      [] FileStatus(filename) = "missing" -> Fail(Err("FileNotFoundError", "", filename, 0))
      [] FileStatus(filename) = "noperm" -> Fail(Err("PermissionError", "", filename, 0))
      [] FileStatus(filename) = "dir" -> Fail(Err("IsADirectoryError", "", filename, 0))

\* a history event
Ev(ev, stage, text, e) == [ev |-> ev, stage |-> stage, text |-> text, err |-> e]

(***************************************************************************)
(* CatExecutor                                                             *)
(***************************************************************************)
CatFromFileAnyError(filename) ==
    LET r == OsOpen(filename)
    IN  IF r.ok THEN r ELSE Fail(Err("FileNotFoundError", "cat", filename, 0))

CatFromFile(filename) ==
    LET r == OsOpen(filename)
    IN  IF ~r.ok /\ r.err.kind = "FileNotFoundError"
        THEN Fail(Err("FileNotFoundError", "cat", filename, 0))
        ELSE r

\* for line in sys.stdin: result += line
CatFromConsole(stdinText) == Concat(ReadLines(stdinText))

StripOneNewline(s) ==
    IF s # Empty /\ s[Len(s)] = NL THEN SubSeq(s, 1, Len(s) - 1) ELSE s

\* the .rstrip() applied to what _catFromConsole returns
ConsoleStrip(s) == StrRStrip(s)

CatSourceIgnoringInput(cntArgs, istreamText) ==
    CASE cntArgs = 1 -> "file"
      [] cntArgs = 0 -> "console"
      [] OTHER -> "error"

\* which branch of CatExecutor.execute is taken
CatSource(cntArgs, istreamText) ==
    CASE cntArgs = 1 -> "file"
      [] cntArgs = 0 /\ istreamText = Empty -> "console"
      [] cntArgs = 0 -> "istream"
      [] OTHER -> "error"

(***************************************************************************)
(* WcExecutor                                                              *)
(***************************************************************************)
WcFromFile(filename) ==
    LET r == OsOpen(filename)
    IN  IF r.ok THEN [ok |-> TRUE, out |-> ReadLines(r.out), err |-> NoErr]
        ELSE IF r.err.kind = "FileNotFoundError"
             THEN Fail(Err("FileNotFoundError", "wc", filename, 0))
             ELSE r

\* for line in sys.stdin: result.append(line)
WcFromConsole(stdinText) == ReadLines(stdinText)

\* [s + '\n' for s in splited][:-1]
WcFromIStream(text) ==
    LET splited == StrSplitOn(text, NL)
        withNl == [i \in 1..Len(splited) |-> Append(splited[i], NL)]
    IN  SubSeq(withNl, 1, Len(withNl) - 1)

\* which branch of WcExecutor.execute is taken
WcSource(cntArgs, inputText) ==
    CASE cntArgs = 1 -> "file"
      [] cntArgs = 0 /\ inputText # Empty -> "istream"
      [] cntArgs = 0 -> "console"
      [] OTHER -> "error"

\* f'{lineCnt} {wordCnt} {charCnt} {filename}' over the lines of realInput
WcFormat(realInput, filename) ==
    ToDec(Len(realInput)) \o <<SP>> \o ToDec(SumWords(realInput)) \o <<SP>>
        \o ToDec(SumLen(realInput)) \o <<SP>> \o filename

(***************************************************************************)
(* processCmd                                                              *)
(***************************************************************************)
ProcessCmd(cmd) ==
    CASE cmd.name = "echo" -> "EchoExecutor"
      [] cmd.name = "pwd" -> "PwdExecutor"
      [] cmd.name = "cat" -> "CatExecutor"
      [] cmd.name = "wc" -> "WcExecutor"
      [] OTHER -> "ExternalExecutor"

(***************************************************************************)
(* The pipeline: runCommand and the execute of each stage.  A stage takes  *)
(* three steps: StageCall (execute is entered with the stream passed to    *)
(* it), the executor's body (it reads what it reads, and either has its    *)
(* output ready or an exception in flight), and StageReturn or StageRaise. *)
(***************************************************************************)
\* no stream / no text yet
NoStream == <<"None">>

\* the end of an executor's body: its output written to ostream, or an
\* exception raised; events are what the body read on the way
Finish(outcome, events) ==
    /\ trace' = trace \o events
                \o (IF outcome.ok THEN <<>> ELSE <<Ev("raise", idx, Empty, outcome.err)>>)
    /\ pc' = IF outcome.ok THEN "ret" ELSE "exc"
    /\ ostream' = outcome.out
    /\ exc' = outcome.err
    /\ UNCHANGED <<cmds, cmdsExec, idx, result, istream, err, returned>>
    /\ UNCHANGED extVars

InBody(class) == pc = "body" /\ cmdsExec[idx] = class

EchoExecute ==
    /\ InBody("EchoExecutor")
    /\ Finish(Ok(cmds[idx].args), <<>>)

PwdExecute ==
    /\ InBody("PwdExecutor")
    /\ \/ Finish(Ok(Cwd), <<>>)
       \/ Finish(Fail(Err("RuntimeError", "pwd", Empty, 0)), <<>>)

CatExecute ==
    /\ InBody("CatExecutor")
    /\ LET args == cmds[idx].args
           cntArgs == Len(StrSplit(args))
           source == CatSource(cntArgs, istream)
       IN  \/ /\ source = "file"
              /\ Finish(CatFromFile(args), <<Ev("open", idx, args, NoErr)>>)
           \/ /\ source = "istream"
              /\ Finish(Ok(istream), <<Ev("getvalue", idx, istream, NoErr)>>)
           \/ /\ source = "console"
              /\ \E t \in Texts :
                    Finish(Ok(ConsoleStrip(CatFromConsole(t))),
                           <<Ev("getvalue", idx, istream, NoErr), Ev("stdin", idx, t, NoErr)>>)
           \/ /\ source = "error"
              /\ Finish(Fail(Err("RuntimeError", "cat", Empty, cntArgs)), <<>>)

WcExecute ==
    /\ InBody("WcExecutor")
    /\ LET filename == cmds[idx].args
           cntArgs == Len(StrSplit(filename))
           source == WcSource(cntArgs, istream)
       IN  \/ /\ source = "file"
              /\ LET r == WcFromFile(filename)
                 IN  Finish(IF r.ok THEN Ok(WcFormat(r.out, filename)) ELSE r,
                            <<Ev("open", idx, filename, NoErr)>>)
           \/ /\ source = "istream"
              /\ Finish(Ok(WcFormat(WcFromIStream(istream), filename)),
                        <<Ev("getvalue", idx, istream, NoErr),
                          Ev("getvalue", idx, istream, NoErr)>>)
           \/ /\ source = "console"
              /\ \E t \in Texts :
                    Finish(Ok(WcFormat(WcFromConsole(t), filename)),
                           <<Ev("getvalue", idx, istream, NoErr), Ev("stdin", idx, t, NoErr)>>)
           \/ /\ source = "error"
              /\ Finish(Fail(Err("RuntimeError", "wc", Empty, cntArgs)), <<>>)

\* the whole of ExternalExecutor.execute when the child lets it return
\* (SpecExt below takes it step by step)
ExternalExecute ==
    /\ InBody("ExternalExecutor")
    /\ \/ /\ SpawnStatus(cmds[idx].name) = "missing"
          /\ Finish(Fail(Err("FileNotFoundError", "", Empty, 0)), <<>>)
       \/ /\ SpawnStatus(cmds[idx].name) = "ok"
          /\ \E out \in ChildOutputs(istream) :
                Finish(Ok(out), <<Ev("getvalue", idx, istream, NoErr)>>)

\* ExternalExecutor.execute never returns: the child does not exit, or the
\* two processes block on each other's pipes
ExternalHang ==
    /\ InBody("ExternalExecutor")
    /\ SpawnStatus(cmds[idx].name) = "ok"
    /\ pc' = "hung"
    /\ trace' = Append(trace, Ev("getvalue", idx, istream, NoErr))
    /\ UNCHANGED <<cmds, cmdsExec, idx, result, istream, ostream, exc, err, returned>>
    /\ UNCHANGED extVars

\* result = io.StringIO(); cmdsExec = list(map(processCmd, cmds))
Dispatch ==
    /\ pc = "start"
    /\ result' = Empty
    /\ cmdsExec' = [i \in 1..Len(cmds) |-> ProcessCmd(cmds[i])]
    /\ idx' = 1
    /\ pc' = "loop"
    /\ UNCHANGED <<cmds, istream, ostream, exc, err, returned, trace>>
    /\ UNCHANGED extVars

StageInputFresh == Empty

\* the stream runCommand passes to execute
StageInput == result

\* cmd.execute(result) is entered
StageCall ==
    /\ pc = "loop"
    /\ idx <= Len(cmdsExec)
    /\ istream' = StageInput
    /\ trace' = Append(trace, Ev("call", idx, StageInput, NoErr))
    /\ pc' = "body"
    /\ UNCHANGED <<cmds, cmdsExec, idx, result, ostream, exc, err, returned>>
    /\ UNCHANGED extVars

\* result = <what execute returned>
StageReturn ==
    /\ pc = "ret"
    /\ result' = ostream
    /\ trace' = Append(trace, Ev("ret", idx, ostream, NoErr))
    /\ idx' = idx + 1
    /\ pc' = "loop"
    /\ UNCHANGED <<cmds, cmdsExec, istream, ostream, exc, err, returned>>
    /\ UNCHANGED extVars

StageRaiseSwallowed ==
    /\ pc = "exc"
    /\ idx' = idx + 1
    /\ pc' = "loop"
    /\ UNCHANGED <<cmds, cmdsExec, result, istream, ostream, exc, err, returned, trace>>
    /\ UNCHANGED extVars

\* except Exception as e: raise e
StageRaise ==
    /\ pc = "exc"
    /\ err' = exc
    /\ pc' = "raised"
    /\ UNCHANGED <<cmds, cmdsExec, idx, result, istream, ostream, exc, returned, trace>>
    /\ UNCHANGED extVars

FinalTextUnchanged(text) == text

\* result.write('\n')
FinalText(text) == Append(text, NL)

\* the loop is over: result.write('\n'); return result
RunFinish ==
    /\ pc = "loop"
    /\ idx > Len(cmdsExec)
    /\ returned' = FinalText(result)
    /\ pc' = "returned"
    /\ UNCHANGED <<cmds, cmdsExec, idx, result, istream, ostream, exc, err, trace>>
    /\ UNCHANGED extVars

ExtIdle ==
    /\ xpc = "idle" /\ cpc = "idle"
    /\ xinput = 0 /\ xbuf = 0 /\ xgot = 0
    /\ inPipe = 0 /\ outPipe = 0 /\ errPipe = 0
    /\ inClosed = FALSE
    /\ cout = 0 /\ cerr = 0

Init ==
    /\ cmds \in Pipelines
    /\ cmdsExec = <<>>
    /\ pc = "start"
    /\ idx = 0
    /\ result = NoStream
    /\ istream = NoStream
    /\ ostream = NoStream
    /\ exc = NoErr
    /\ err = NoErr
    /\ returned = NoStream
    /\ trace = <<>>
    /\ ExtIdle

Next ==
    \/ Dispatch
    \/ StageCall
    \/ EchoExecute
    \/ PwdExecute
    \/ CatExecute
    \/ WcExecute
    \/ ExternalExecute
    \/ ExternalHang
    \/ StageReturn
    \/ StageRaise
    \/ RunFinish

Spec == Init /\ [][Next]_vars

(***************************************************************************)
(* ExternalExecutor.execute step by step, against a child that reads its   *)
(* standard input to end-of-input, writes to stdout and stderr as it       *)
(* likes on the way, and then exits.  Pipes hold at most PipeCap bytes, a  *)
(* write to a full pipe and a read of an empty open pipe block; bytes are  *)
(* counted, not told apart.  cpc names the system call the child is in.    *)
(***************************************************************************)
PipeUnchanged == UNCHANGED pipeVars

\* the system call the child makes next
ChildNext(canRead, out, er) ==
    (IF canRead THEN {"read"} ELSE {})
    \cup (IF out > 0 THEN {"wout"} ELSE {})
    \cup (IF er > 0 THEN {"werr"} ELSE {})

\* subprocess.Popen([name, args], stdin=PIPE, stdout=PIPE, stderr=PIPE)
XPopen ==
    /\ xpc = "popen"
    /\ xpc' = "write"
    /\ cpc' \in ChildNext(TRUE, cout, cerr)
    /\ UNCHANGED <<xinput, xbuf, inPipe, inClosed, outPipe, errPipe, xgot, cout, cerr>>
    /\ PipeUnchanged

\* externalProcess.stdin.write(encodedInput), input that fits the
\* BufferedWriter: it is only copied into the buffer
XWriteBuffered ==
    /\ xpc = "write"
    /\ xinput <= BufCap
    /\ xbuf' = xinput
    /\ xinput' = 0
    /\ xpc' = "flush"
    /\ UNCHANGED <<inPipe, inClosed, outPipe, errPipe, xgot, cpc, cout, cerr>>
    /\ PipeUnchanged

\* externalProcess.stdin.write(encodedInput), larger input: the raw write
\* puts every byte into the pipe and returns when the last one is in
XWriteRaw ==
    /\ \/ xpc = "write" /\ xinput > BufCap
       \/ xpc = "rawwrite"
    /\ inPipe < PipeCap
    /\ inPipe' = inPipe + 1
    /\ xinput' = xinput - 1
    /\ xpc' = IF xinput = 1 THEN "flush" ELSE "rawwrite"
    /\ UNCHANGED <<xbuf, inClosed, outPipe, errPipe, xgot, cpc, cout, cerr>>
    /\ PipeUnchanged

\* communicate(): self.stdin.flush()
XFlush ==
    /\ xpc = "flush"
    /\ xbuf > 0
    /\ inPipe < PipeCap
    /\ inPipe' = inPipe + 1
    /\ xbuf' = xbuf - 1
    /\ UNCHANGED <<xpc, xinput, inClosed, outPipe, errPipe, xgot, cpc, cout, cerr>>
    /\ PipeUnchanged

\* communicate(): self.stdin.close(), there being no input to send
XCloseStdin ==
    /\ xpc = "flush"
    /\ xbuf = 0
    /\ inClosed' = TRUE
    /\ xpc' = "collect"
    /\ UNCHANGED <<xinput, xbuf, inPipe, outPipe, errPipe, xgot, cpc, cout, cerr>>
    /\ PipeUnchanged

\* communicate(): the selector loop reads what stdout holds
XCollectOut ==
    /\ xpc = "collect"
    /\ outPipe > 0
    /\ xgot' = xgot + outPipe
    /\ outPipe' = 0
    /\ UNCHANGED <<xpc, xinput, xbuf, inPipe, inClosed, errPipe, cpc, cout, cerr>>
    /\ PipeUnchanged

\* communicate(): the selector loop reads what stderr holds
XCollectErr ==
    /\ xpc = "collect"
    /\ errPipe > 0
    /\ errPipe' = 0
    /\ UNCHANGED <<xpc, xinput, xbuf, inPipe, inClosed, outPipe, xgot, cpc, cout, cerr>>
    /\ PipeUnchanged

\* communicate() sees the end of both streams and waits for the child;
\* externalProcess.stdin.close(); ostream.write(result); return ostream
XReturn ==
    /\ xpc = "collect"
    /\ cpc = "exited"
    /\ outPipe = 0 /\ errPipe = 0
    /\ xpc' = "returned"
    /\ UNCHANGED <<xinput, xbuf, inPipe, inClosed, outPipe, errPipe, xgot, cpc, cout, cerr>>
    /\ PipeUnchanged

\* the child reads a byte of its standard input
CRead ==
    /\ cpc = "read"
    /\ inPipe > 0
    /\ inPipe' = inPipe - 1
    /\ cpc' \in ChildNext(TRUE, cout, cerr)
    /\ UNCHANGED <<xpc, xinput, xbuf, inClosed, outPipe, errPipe, xgot, cout, cerr>>
    /\ PipeUnchanged

\* the child's read returns end-of-input: it writes what it still has to and exits
CReadEof ==
    /\ cpc = "read"
    /\ inPipe = 0
    /\ inClosed
    /\ cpc' \in (IF cout = 0 /\ cerr = 0 THEN {"exited"} ELSE ChildNext(FALSE, cout, cerr))
    /\ UNCHANGED <<xpc, xinput, xbuf, inPipe, inClosed, outPipe, errPipe, xgot, cout, cerr>>
    /\ PipeUnchanged

\* the child writes a byte to its standard output
CWriteOut ==
    /\ cpc = "wout"
    /\ outPipe < PipeCap
    /\ outPipe' = outPipe + 1
    /\ cout' = cout - 1
    /\ cpc' \in ChildNext(TRUE, cout', cerr)
    /\ UNCHANGED <<xpc, xinput, xbuf, inPipe, inClosed, errPipe, xgot, cerr>>
    /\ PipeUnchanged

\* the child writes a byte to its standard error
CWriteErr ==
    /\ cpc = "werr"
    /\ errPipe < PipeCap
    /\ errPipe' = errPipe + 1
    /\ cerr' = cerr - 1
    /\ cpc' \in ChildNext(TRUE, cout, cerr')
    /\ UNCHANGED <<xpc, xinput, xbuf, inPipe, inClosed, outPipe, xgot, cout>>
    /\ PipeUnchanged

InitExt ==
    /\ cmds = <<>>
    /\ cmdsExec = <<>>
    /\ pc = "external"
    /\ idx = 0
    /\ result = NoStream
    /\ istream = NoStream
    /\ ostream = NoStream
    /\ exc = NoErr
    /\ err = NoErr
    /\ returned = NoStream
    /\ trace = <<>>
    /\ xpc = "popen"
    /\ cpc = "idle"
    /\ xinput \in 0..MaxIn
    /\ cout \in 0..MaxOut
    /\ cerr \in 0..MaxOut
    /\ xbuf = 0 /\ xgot = 0
    /\ inPipe = 0 /\ outPipe = 0 /\ errPipe = 0
    /\ inClosed = FALSE

NextExt ==
    \/ XPopen
    \/ XWriteBuffered
    \/ XWriteRaw
    \/ XFlush
    \/ XCloseStdin
    \/ XCollectOut
    \/ XCollectErr
    \/ XReturn
    \/ CRead
    \/ CReadEof
    \/ CWriteOut
    \/ CWriteErr

SpecExt == InitExt /\ [][NextExt]_vars

(***************************************************************************)
(* Reading the history.                                                    *)
(***************************************************************************)
Positions == 1..Len(trace)

\* how many events of a kind precede position p
CountBefore(kind, p) == Cardinality({q \in 1..(p - 1) : trace[q].ev = kind})

\* the output stage k returned, the empty stream before the first stage
OutputOf(k) ==
    IF k = 0 THEN Empty
    ELSE LET q == CHOOSE q \in Positions : trace[q].ev = "ret" /\ trace[q].stage = k
         IN  trace[q].text

HasReturned(k) == k = 0 \/ \E q \in Positions : trace[q].ev = "ret" /\ trace[q].stage = k

\* the body of stage k's execute has run to its end
BodyDone(k) == k < idx \/ (k = idx /\ pc \in {"ret", "exc", "raised", "hung"})

CntTokens(k) == Len(StrSplit(cmds[k].args))

IsCatOrWc(k) == cmds[k].name \in {"cat", "wc"}

(***************************************************************************)
(* C1: when a stage's execute fails, nothing happens after it: no later    *)
(* stage is called, runCommand returns no stream, and what runCommand      *)
(* raises is the error of that stage.                                      *)
(***************************************************************************)
FirstFailureAborts ==
    /\ \A p \in Positions : trace[p].ev = "raise" =>
          /\ p = Len(trace)
          /\ \A q \in Positions : trace[q].ev = "call" => trace[q].stage <= trace[p].stage
          /\ pc \in {"exc", "raised"}
          /\ returned = NoStream
          /\ pc = "raised" => err = trace[p].err /\ err # NoErr
    /\ pc = "raised" => trace # <<>> /\ trace[Len(trace)].ev = "raise"

\* the first of two stages failed and runCommand raised
FirstFailureAbortsWitness ==
    /\ pc = "raised"
    /\ Len(cmds) = 2
    /\ trace[Len(trace)].ev = "raise"
    /\ trace[Len(trace)].stage = 1

(***************************************************************************)
(* C2: the stages are called left to right, one at a time: stage 1 gets    *)
(* the empty stream, stage k+1 gets exactly what stage k returned and is   *)
(* called only after stage k returned, and a stage reads its input stream  *)
(* only between its call and its return.                                   *)
(***************************************************************************)
StagesInOrder ==
    \A p \in Positions :
        LET k == trace[p].stage
        IN  /\ trace[p].ev = "call" =>
                 /\ CountBefore("call", p) = k - 1
                 /\ CountBefore("ret", p) = k - 1
                 /\ HasReturned(k - 1)
                 /\ trace[p].text = OutputOf(k - 1)
            /\ trace[p].ev = "getvalue" =>
                 /\ CountBefore("call", p) = k
                 /\ CountBefore("ret", p) = k - 1
                 /\ trace[p].text = OutputOf(k - 1)

\* the second stage was called with a non-empty stream and read it
StagesInOrderWitness ==
    \E p \in Positions :
        /\ trace[p].ev = "getvalue"
        /\ trace[p].stage = 2
        /\ trace[p].text # Empty
        /\ pc = "returned"

(***************************************************************************)
(* C3: when every stage succeeds, runCommand returns the last stage's      *)
(* output followed by one newline, and no stage was passed anything but    *)
(* the previous stage's output as it was returned.                         *)
(***************************************************************************)
ResultIsLastOutputPlusNewline ==
    /\ pc = "returned" =>
          /\ \A k \in 1..Len(cmds) : HasReturned(k)
          /\ returned = OutputOf(Len(cmds)) \o <<NL>>
    /\ pc # "returned" => returned = NoStream
    /\ \A p \in Positions : trace[p].ev = "call" =>
          /\ HasReturned(trace[p].stage - 1)
          /\ trace[p].text = OutputOf(trace[p].stage - 1)

\* a two-stage pipeline returned, its first stage's output ending in a newline
ResultIsLastOutputPlusNewlineWitness ==
    /\ pc = "returned"
    /\ Len(cmds) = 2
    /\ OutputOf(1) # Empty
    /\ OutputOf(1)[Len(OutputOf(1))] = NL
    /\ OutputOf(2) # Empty

(***************************************************************************)
(* What a cat or wc stage that read standard input returned: the events    *)
(* of a stage that succeeds end with its ret.                              *)
(***************************************************************************)
\* position p is a read of standard input by a stage named name, which
\* had no argument token and an empty incoming stream and then returned
ConsoleReadReturned(name, p) ==
    /\ trace[p].ev = "stdin"
    /\ cmds[trace[p].stage].name = name
    /\ CntTokens(trace[p].stage) = 0
    /\ OutputOf(trace[p].stage - 1) = Empty
    /\ p < Len(trace)
    /\ trace[p + 1].ev = "ret"
    /\ trace[p + 1].stage = trace[p].stage

EndsInNewline(text) == text # Empty /\ text[Len(text)] = NL

(***************************************************************************)
(* C4, as claimed: cat without argument and without incoming text emits    *)
(* standard input's content S less exactly one trailing newline: for S     *)
(* ending in a newline, S without its last character.                      *)
(***************************************************************************)
CatConsoleStripsOneNewline ==
    \A p \in Positions :
        ConsoleReadReturned("cat", p) /\ EndsInNewline(trace[p].text) =>
            trace[p + 1].text = SubSeq(trace[p].text, 1, Len(trace[p].text) - 1)

(***************************************************************************)
(* C4, amended: cat without argument and without incoming text emits       *)
(* standard input's content S less all of its trailing whitespace: the     *)
(* output is a prefix of S, what S has after it is whitespace only, and    *)
(* the output does not end in whitespace.                                  *)
(***************************************************************************)
CatConsoleStripsTrailingWhitespace ==
    \A p \in Positions :
        ConsoleReadReturned("cat", p) =>
            LET S == trace[p].text
                out == trace[p + 1].text
            IN  /\ Len(out) <= Len(S)
                /\ out = SubSeq(S, 1, Len(out))
                /\ \A i \in (Len(out) + 1)..Len(S) : S[i] \in {SP, NL}
                /\ out # Empty => out[Len(out)] \notin {SP, NL}

\* cat read standard input that ends in whitespace followed by a newline,
\* and returned
CatConsoleStripsTrailingWhitespaceWitness ==
    \E p \in Positions :
        /\ ConsoleReadReturned("cat", p)
        /\ EndsInNewline(trace[p].text)
        /\ Len(trace[p].text) >= 2
        /\ trace[p].text[Len(trace[p].text) - 1] \in {SP, NL}
        /\ pc = "returned"

\* the lines the claim counts
ClaimedWcLines(text) ==
    LET splited == StrSplitOn(text, NL)
        kept == IF splited[Len(splited)] = Empty
                THEN SubSeq(splited, 1, Len(splited) - 1)
                ELSE splited
    IN  [i \in 1..Len(kept) |-> Append(kept[i], NL)]

(***************************************************************************)
(* C5, as claimed: wc without argument over a non-empty incoming stream    *)
(* counts the stream's fragments between newlines, only a trailing empty   *)
(* fragment dropped, each with a newline appended; text that does not end  *)
(* in a newline has its last line counted.                                 *)
(***************************************************************************)
WcPipedCountsEveryLine ==
    \A p \in Positions :
        LET k == trace[p].stage
        IN  /\ trace[p].ev = "ret"
            /\ cmds[k].name = "wc"
            /\ CntTokens(k) = 0
            /\ OutputOf(k - 1) # Empty
            => trace[p].text = WcFormat(ClaimedWcLines(OutputOf(k - 1)), cmds[k].args)

\* position p is the open of a file by a cat or wc stage with one token
OpenByCatOrWc(p) ==
    /\ trace[p].ev = "open"
    /\ IsCatOrWc(trace[p].stage)
    /\ CntTokens(trace[p].stage) = 1

\* the event after position p is the stage's raise of an error of this kind
RaisesNext(p, kind, cmd) ==
    /\ p < Len(trace)
    /\ trace[p + 1].ev = "raise"
    /\ trace[p + 1].stage = trace[p].stage
    /\ trace[p + 1].err = Err(kind, cmd, trace[p].text, 0)
    /\ ~HasReturned(trace[p].stage)
    /\ returned = NoStream

OnlyTwoErrorKinds ==
    \A p \in Positions :
        trace[p].ev = "raise" =>
            IF trace[p].err.kind = "FileNotFoundError"
            THEN /\ IsCatOrWc(trace[p].stage)
                 /\ CntTokens(trace[p].stage) = 1
                 /\ FileStatus(trace[p].err.file) = "missing"
            ELSE trace[p].err.kind = "RuntimeError"

(***************************************************************************)
(* C8, as claimed: cat and wc with one argument token open the file named  *)
(* by that token, whatever whitespace surrounds it in the argument string. *)
(***************************************************************************)
OpensTheToken ==
    \A p \in Positions :
        OpenByCatOrWc(p) => trace[p].text = StrSplit(cmds[trace[p].stage].args)[1]

StdinReads(k) == {p \in Positions : trace[p].ev = "stdin" /\ trace[p].stage = k}

(***************************************************************************)
(* C9: a stage reads standard input exactly when it is cat or wc, has no   *)
(* argument token and its incoming stream is empty, wherever it stands in  *)
(* the pipeline; and then it reads it once.                                *)
(***************************************************************************)
StdinReadIffEmptyInput ==
    \A k \in 1..Len(cmds) :
        /\ StdinReads(k) # {} =>
              /\ IsCatOrWc(k)
              /\ CntTokens(k) = 0
              /\ HasReturned(k - 1)
              /\ OutputOf(k - 1) = Empty
              /\ Cardinality(StdinReads(k)) = 1
        /\ BodyDone(k) /\ IsCatOrWc(k) /\ CntTokens(k) = 0 /\ OutputOf(k - 1) = Empty
              => StdinReads(k) # {}

\* the second stage read standard input, the first having returned nothing
StdinReadIffEmptyInputWitness ==
    /\ StdinReads(2) # {}
    /\ cmds[1].name = "echo"
    /\ pc = "returned"

ParentBlockedWriting ==
    /\ inPipe = PipeCap
    /\ \/ xpc = "write" /\ xinput > BufCap
       \/ xpc = "rawwrite"
       \/ xpc = "flush" /\ xbuf > 0

ChildBlockedWriting ==
    \/ cpc = "wout" /\ outPipe = PipeCap
    \/ cpc = "werr" /\ errPipe = PipeCap

(***************************************************************************)
(* C10, as claimed: ExternalExecutor.execute is never blocked writing the  *)
(* child's standard input while the child is blocked writing its standard  *)
(* output or standard error to a full pipe.                                *)
(***************************************************************************)
NoPipeDeadlock == ~(ParentBlockedWriting /\ ChildBlockedWriting)

====
